---- MODULE Spec2Model ----
(***************************************************************************)
(* Model of LectureFrameExtractor (3-note-generator/                        *)
(* extract_lecture_frames.py): the driving loop of extract_frames, the      *)
(* motion gate, the stability check, the duplicate filter, save_frame,      *)
(* save_metadata and run.                                                   *)
(*                                                                          *)
(* Units: stream times are integers in milliseconds (the source holds       *)
(* seconds as floats); thresholds are integers in hundredths.  A frame is   *)
(* a sequence of BGR pixels; None is the empty sequence.                    *)
(*                                                                          *)
(* Spec is one call of run(); SpecTwice is two calls of run() for the same  *)
(* video; SpecFn applies is_duplicate_frame and detect_fast_motion on their *)
(* own to inputs drawn from bounded sets.                                   *)
(***************************************************************************)
EXTENDS Integers, Sequences, FiniteSets, TLC

\* ---------------------------------------------------------------- bounds
\* most frames decoded from the source in one run
MaxFrames == 18
\* longest stream, in frames, whose tick frames are chosen freely; a longer
\* stream is a slide show (see AllowedStream)
MaxFreeFrames == 6
\* most changes of slide in a slide show
MaxCuts == 2
\* most frames of a video that is processed twice
MaxRerunFrames == 12
\* most imwrite calls that report failure by returning False in one run
MaxSinkFalse == 1

\* longest cache handed to is_duplicate_frame when it is checked on its own
MaxCacheLen == 2

\* ------------------------------------------------- configuration (__init__)
similarity_threshold == 95
min_stable_duration == 5000
check_interval == 1000
motion_threshold == 20
duplicate_threshold == 98
buffer_size == 5
HistBins == 256
InitLastSaved == -999000

\* frame rates of the sources considered (cap.get(CAP_PROP_FPS))
FpsSet == {1, 2}

\* ------------------------------------------------------------------ frames
None == <<>>
Px(v) == <<v, v, v>>
Rep(p, n) == [i \in 1..n |-> p]

\* four 8-pixel slides: black, white, black with one white pixel, black with
\* one pure red pixel
Blk == Rep(Px(0), 8)
Wht == Rep(Px(255), 8)
Mid == Rep(Px(0), 7) \o <<Px(255)>>
Red == Rep(Px(0), 7) \o << <<0, 0, 255>> >>
\* a malformed frame: an image of another size than the frames of the stream
Odd == Rep(Px(0), 4)
Slides == {Blk, Wht, Mid, Red, Odd}

\* more frames for the checks of the functions on their own: black with one
\* nearly black pixel, nearly black all over, and black with one pixel whose
\* difference from black is exactly 1 - similarity_threshold of the frame
Dup == Rep(Px(0), 7) \o <<Px(4)>>
Dim == Rep(Px(1), 8)
Edge == Rep(Px(0), 7) \o <<Px(102)>>
Frames == Slides \cup {Dup, Dim, Edge}

\* cv2.cvtColor(frame, cv2.COLOR_BGR2GRAY) on one 8-bit pixel
Gray(p) == (p[1] * 1868 + p[2] * 9617 + p[3] * 4899 + 8192) \div 16384

Abs(x) == IF x < 0 THEN 0 - x ELSE x

RECURSIVE SumTo(_, _)
SumTo(F, n) == IF n = 0 THEN 0 ELSE F[n] + SumTo(F, n - 1)

\* p/q > r/s for p, r >= 0 and q, s > 0, without forming products
RECURSIVE FracGT(_, _, _, _)
FracGT(p, q, r, s) ==
    LET a == p \div q
        b == r \div s
    IN  IF a # b THEN a > b
        ELSE IF p % q = 0 THEN FALSE
        ELSE IF r % s = 0 THEN TRUE
        ELSE FracGT(s, r % s, q, p % q)

\* cv2.calcHist: number of pixels of each intensity
HistCount(f, v) == Cardinality({i \in 1..Len(f) : Gray(f[i]) = v})
Levels(f) == {Gray(f[i]) : i \in 1..Len(f)}

RECURSIVE SumSet(_, _, _)
SumSet(S, f1, f2) ==
    IF S = {} THEN 0
    ELSE LET v == CHOOSE x \in S : TRUE
         IN HistCount(f1, v) * HistCount(f2, v) + SumSet(S \ {v}, f1, f2)

\* HistBins * covariance of the two histograms (numerator of HISTCMP_CORREL)
HistNum(f1, f2) ==
    HistBins * SumSet(Levels(f1) \cap Levels(f2), f1, f2) - Len(f1) * Len(f2)
\* HistBins * variance of one histogram
HistVar(f) == HistBins * SumSet(Levels(f), f, f) - Len(f) * Len(f)

\* calculate_frame_similarity(frame1, frame2) > pct / 100
\* (compareHist returns 1 when a histogram has no variance)
HistSimAbove(f1, f2, pct) ==
    LET num == HistNum(f1, f2)
        den == HistVar(f1) * HistVar(f2)
    IN  IF den = 0 THEN 100 > pct
        ELSE /\ num > 0
             /\ FracGT(num * num, den, pct * pct, 10000)

\* calculate_structural_similarity as the fraction StructNum / StructDen.
\* The frames of the model are 8 pixels wide: max(height, width) <= max_dim,
\* the resize branch is not taken.
StructDen(f) == Len(f) * 255
StructNum(f1, f2) ==
    StructDen(f1)
      - SumTo([i \in 1..Len(f1) |-> Abs(Gray(f1[i]) - Gray(f2[i]))], Len(f1))
StructSimAbove(f1, f2, pct) == StructNum(f1, f2) * 100 > pct * StructDen(f1)

\* cv2.absdiff(gray1, gray2) raises cv2.error unless the two images have the
\* same size; nothing in the class catches it
Comparable(f1, f2) == Len(f1) = Len(f2)

\* detect_fast_motion raises: one of the adjacent pairs cannot be compared
motion_raises(buf) ==
    /\ Len(buf) >= 3
    /\ \E i \in 1..(Len(buf) - 1) : ~Comparable(buf[i], buf[i + 1])

\* mutant of detect_fast_motion: the gate works from two buffered frames on
detect_fast_motion_from_two(buf) ==
    IF Len(buf) < 2 THEN FALSE
    ELSE LET n == Len(buf) - 1
             total == SumTo([i \in 1..n |-> StructNum(buf[i], buf[i + 1])], n)
         IN total * 100 < (100 - motion_threshold) * n * StructDen(buf[1])

\* detect_fast_motion(frames_buffer)
detect_fast_motion(buf) ==
    IF Len(buf) < 3 THEN FALSE
    ELSE LET n == Len(buf) - 1
             total == SumTo([i \in 1..n |-> StructNum(buf[i], buf[i + 1])], n)
         IN total * 100 < (100 - motion_threshold) * n * StructDen(buf[1])

\* mutant of is_duplicate_frame: only the most recently saved frame is compared
is_duplicate_frame_last_only(frame, cache) ==
    /\ cache # <<>>
    /\ HistSimAbove(frame, cache[Len(cache)], duplicate_threshold)
    /\ StructSimAbove(frame, cache[Len(cache)], duplicate_threshold)

\* mutant of is_duplicate_frame: only the oldest saved frame is compared
is_duplicate_frame_first_only(frame, cache) ==
    /\ cache # <<>>
    /\ HistSimAbove(frame, cache[1], duplicate_threshold)
    /\ StructSimAbove(frame, cache[1], duplicate_threshold)

\* mutant of is_duplicate_frame: one measure above the threshold is enough
is_duplicate_frame_either(frame, cache) ==
    \E i \in 1..Len(cache) :
        \/ HistSimAbove(frame, cache[i], duplicate_threshold)
        \/ StructSimAbove(frame, cache[i], duplicate_threshold)

\* mutant of is_duplicate_frame: the comparisons are the wrong way round
is_duplicate_frame_flipped(frame, cache) ==
    \E i \in 1..Len(cache) :
        /\ ~HistSimAbove(frame, cache[i], duplicate_threshold)
        /\ ~StructSimAbove(frame, cache[i], duplicate_threshold)

\* is_duplicate_frame(current_frame) against self.saved_frames_cache
is_duplicate_frame(frame, cache) ==
    \E i \in 1..Len(cache) :
        /\ HistSimAbove(frame, cache[i], duplicate_threshold)
        /\ StructSimAbove(frame, cache[i], duplicate_threshold)

\* is_duplicate_frame raises: the loop over the cache reaches a frame that
\* cannot be compared before it has returned True
duplicate_raises(frame, cache) ==
    \E i \in 1..Len(cache) :
        /\ ~Comparable(frame, cache[i])
        /\ \A j \in 1..(i - 1) :
               /\ Comparable(frame, cache[j])
               /\ ~(/\ HistSimAbove(frame, cache[j], duplicate_threshold)
                    /\ StructSimAbove(frame, cache[j], duplicate_threshold))

\* is_frame_stable raises: the candidate cannot be compared with the frame
stable_raises(current_frame, stable) ==
    /\ stable # None
    /\ ~Comparable(current_frame, stable)

\* mutant of is_frame_stable: a similar frame becomes the reference frame
is_frame_stable_refresh(current_frame, stable) ==
    IF stable = None THEN [is_stable |-> TRUE, reference_frame |-> current_frame]
    ELSE IF /\ HistSimAbove(current_frame, stable, similarity_threshold)
            /\ StructSimAbove(current_frame, stable, similarity_threshold)
         THEN [is_stable |-> TRUE, reference_frame |-> current_frame]
         ELSE [is_stable |-> FALSE, reference_frame |-> current_frame]

\* mutant of is_frame_stable: one measure above the threshold is enough
is_frame_stable_either(current_frame, stable) ==
    IF stable = None THEN [is_stable |-> TRUE, reference_frame |-> current_frame]
    ELSE IF \/ HistSimAbove(current_frame, stable, similarity_threshold)
            \/ StructSimAbove(current_frame, stable, similarity_threshold)
         THEN [is_stable |-> TRUE, reference_frame |-> stable]
         ELSE [is_stable |-> FALSE, reference_frame |-> current_frame]

\* mutant of is_frame_stable: on a change the old candidate stays the
\* reference frame
is_frame_stable_stale(current_frame, stable) ==
    IF stable = None THEN [is_stable |-> TRUE, reference_frame |-> current_frame]
    ELSE IF /\ HistSimAbove(current_frame, stable, similarity_threshold)
            /\ StructSimAbove(current_frame, stable, similarity_threshold)
         THEN [is_stable |-> TRUE, reference_frame |-> stable]
         ELSE [is_stable |-> FALSE, reference_frame |-> stable]

\* is_frame_stable(current_frame, stable_frame, duration)
is_frame_stable(current_frame, stable) ==
    IF stable = None THEN [is_stable |-> TRUE, reference_frame |-> current_frame]
    ELSE IF /\ HistSimAbove(current_frame, stable, similarity_threshold)
            /\ StructSimAbove(current_frame, stable, similarity_threshold)
         THEN [is_stable |-> TRUE, reference_frame |-> stable]
         ELSE [is_stable |-> FALSE, reference_frame |-> current_frame]

\* ------------------------------------------------------------------- state
VARIABLES
    \* the extractor object
    extracted_frames,     \* self.extracted_frames: the records, in order
    saved_frames_cache,   \* self.saved_frames_cache: the saved images, in order
    \* locals of extract_frames
    cap_opened,           \* cap.isOpened()
    fps,                  \* cap.get(CAP_PROP_FPS)
    stable_frame,         \* the candidate, None when there is none
    stable_start_time,    \* "since", ms
    last_saved_time,      \* ms
    frame_count,          \* next sequence number
    frames_buffer,        \* motion buffer
    frame_index,          \* frames decoded so far
    current_time,         \* stream time of the last analysis tick, ms
    \* run() and the environment
    pc,                   \* "idle", "open", "loop", "done", "raised"
    cleanup_first,        \* argument of run()
    error,                \* the exception raised to the caller of run(), or "none"
    disk,                 \* names of the frame files in output_folder
    manifest,             \* frames_metadata.json: <<>> when absent, else <<content>>
    \* history (not read by any action's guard except the stream bounds)
    tick_log,             \* the frames the source showed at the analysis ticks
    event,                \* what the last step of the driving loop did
    save_ticks,           \* tick time of every save that appended a record
    sink_result,          \* outcome of the last cv2.imwrite: "none", "ok", "false", "raise"
    sink_false,           \* number of cv2.imwrite calls that returned False
    read_result,          \* why decoding stopped: "none", "eof", "fail_false", "fail_raise"
    \* a second call of run() for the same video
    runs,                 \* how many times the caller calls run(): 1 or 2
    run_no,               \* 1 in the first run(), 2 in the second
    first_run,            \* what the first run() read and wrote; <<>> during it
    kept                  \* the old output that cleanup_old_frames could not remove

vars == <<extracted_frames, saved_frames_cache, cap_opened, fps, stable_frame,
          stable_start_time, last_saved_time, frame_count, frames_buffer,
          frame_index, current_time, pc, cleanup_first, error, disk, manifest,
          tick_log, event, save_ticks, sink_result, sink_false, read_result,
          runs, run_no, first_run, kept>>

extractor == <<extracted_frames, saved_frames_cache>>
locals == <<stable_frame, stable_start_time, last_saved_time, frame_count,
            frames_buffer, frame_index, current_time>>
history == <<tick_log, save_ticks, sink_result, sink_false>>
earlier == <<runs, run_no, first_run, kept>>

\* ------------------------------------------------------------ the stream
\* every slide of a slide show is shown for at least this many ticks
MinShotTicks == min_stable_duration \div check_interval + 1

CutAt(log, i) == log[i] # log[i + 1]
Cuts(log) == Cardinality({i \in 1..(Len(log) - 1) : CutAt(log, i)})
\* the shot that ends at tick i began at least MinShotTicks ticks earlier
ShotLongEnough(log, i) ==
    /\ i >= MinShotTicks
    /\ \A j \in (i - MinShotTicks + 1)..(i - 1) : ~CutAt(log, j)
SlideShow(log) ==
    /\ Cuts(log) <= MaxCuts
    /\ \A i \in 1..(Len(log) - 1) : CutAt(log, i) => ShotLongEnough(log, i)
AllowedStream(log, frames) == frames <= MaxFreeFrames \/ SlideShow(log)
\* a video that is processed twice is a slide show of at most MaxRerunFrames
\* frames
StreamBound == IF runs = 2 THEN MaxRerunFrames ELSE MaxFrames

\* ------------------------------------------------------------- save_frame
\* f"frame_{frame_number:04d}_at_{timestamp:.2f}s.jpg": the number and the
\* timestamp rounded to hundredths of a second
Filename(frame_number, timestamp) == <<frame_number, (timestamp + 5) \div 10>>
Filepath(filename) == <<"output/frames", filename>>
FrameInfo(frame_number, timestamp) ==
    [frame_number |-> frame_number,
     timestamp |-> timestamp,
     filename |-> Filename(frame_number, timestamp),
     filepath |-> Filepath(Filename(frame_number, timestamp))]

\* what was left in output_folder by an earlier run
PrevDisk == {Filename(0, 0), Filename(1, 7000)}
PrevManifest ==
    [extraction_time |-> "earlier",
     total_frames_extracted |-> 2,
     parameters |-> [similarity_threshold |-> similarity_threshold,
                     min_stable_duration |-> min_stable_duration,
                     check_interval |-> check_interval,
                     motion_threshold |-> motion_threshold],
     frames |-> <<FrameInfo(0, 0), FrameInfo(1, 7000)>>]

\* save_metadata(): the content of frames_metadata.json
Metadata(frames) ==
    [extraction_time |-> "now",
     total_frames_extracted |-> Len(frames),
     parameters |-> [similarity_threshold |-> similarity_threshold,
                     min_stable_duration |-> min_stable_duration,
                     check_interval |-> check_interval,
                     motion_threshold |-> motion_threshold],
     frames |-> frames]

\* cleanup_old_frames removed everything it looked for
NothingKept == [frames |-> {}, metadata |-> FALSE]

\* -------------------------------------------------------------------- Init
\* the extractor after __init__, the output folder as an earlier run left it,
\* and a caller that is going to call run() n times
InitRuns(n) ==
    /\ runs = n
    /\ extracted_frames = <<>>
    /\ saved_frames_cache = <<>>
    /\ cap_opened = FALSE
    /\ fps = 0
    /\ stable_frame = None
    /\ stable_start_time = 0
    /\ last_saved_time = InitLastSaved
    /\ frame_count = 0
    /\ frames_buffer = <<>>
    /\ frame_index = 0
    /\ current_time = 0
    /\ pc = "idle"
    /\ cleanup_first = FALSE
    /\ error = "none"
    /\ disk = PrevDisk
    /\ manifest = <<PrevManifest>>
    /\ tick_log = <<>>
    /\ event = "none"
    /\ save_ticks = <<>>
    /\ sink_result = "none"
    /\ sink_false = 0
    /\ read_result = "none"
    /\ run_no = 1
    /\ first_run = <<>>
    /\ kept = NothingKept

Init == InitRuns(1)

\* --------------------------------------------------------------------- run
\* run(cleanup_first) up to the call of extract_frames: cleanup_old_frames
\* removes frame_*.jpg and frames_metadata.json from output_folder
RunStart(cf) ==
    /\ pc = "idle"
    /\ cleanup_first' = cf
    /\ disk' = IF cf THEN {} ELSE disk
    /\ manifest' = IF cf THEN <<>> ELSE manifest
    /\ pc' = "open"
    /\ event' = "start"
    /\ UNCHANGED <<extractor, cap_opened, fps, locals, error, history,
                   read_result,
                   earlier>>

\* mutant of OpenFail: the isOpened() check is missing, extraction goes on
\* with a source that yields nothing
OpenFail_unchecked ==
    /\ pc = "open"
    /\ cap_opened' = FALSE
    /\ fps' = 1
    /\ pc' = "loop"
    /\ event' = "opened"
    /\ UNCHANGED <<extractor, locals, cleanup_first, error, disk, manifest,
                   history, read_result,
                   earlier>>

\* cap.isOpened() is False: ValueError, re-raised by run()
OpenFail ==
    /\ pc = "open"
    /\ cap_opened' = FALSE
    /\ pc' = "raised"
    /\ error' = "ValueError"
    /\ event' = "open_failed"
    /\ UNCHANGED <<extractor, fps, locals, cleanup_first, disk, manifest,
                   history, read_result,
                   earlier>>

\* the source opens: the frame processing variables are initialised
OpenOk(f) ==
    /\ pc = "open"
    /\ run_no = 2 => f = first_run.fps
    /\ cap_opened' = TRUE
    /\ fps' = f
    /\ stable_frame' = None
    /\ stable_start_time' = 0
    /\ last_saved_time' = InitLastSaved
    /\ frame_count' = 0
    /\ frames_buffer' = <<>>
    /\ frame_index' = 0
    /\ pc' = "loop"
    /\ event' = "opened"
    /\ UNCHANGED <<extractor, current_time, cleanup_first, error, disk,
                   manifest, history, read_result,
                   earlier>>

\* ------------------------------------------------------- the driving loop
\* int(fps * self.check_interval)
check_frame_interval == (fps * check_interval) \div 1000
\* cap.get(cv2.CAP_PROP_POS_MSEC) after the idx-th read: the position of the
\* frame just decoded
PosMsec(idx) == ((idx - 1) * 1000) \div fps

\* lines 224-226: append to the motion buffer, evict the oldest past capacity
\* mutant of BufferPush: the buffer keeps three frames
BufferPush_three(buf, frame) ==
    LET b == Append(buf, frame)
    IN IF Len(b) > 3 THEN Tail(b) ELSE b

\* lines 224-226: append the tick's frame, drop the oldest beyond buffer_size
BufferPush(buf, frame) ==
    LET b == Append(buf, frame)
    IN IF Len(b) > buffer_size THEN Tail(b) ELSE b

\* mutant of should_save: strict comparisons
should_save_strict(now, since, last_saved) ==
    /\ now - since > min_stable_duration
    /\ now - last_saved > min_stable_duration

\* lines 245-246: stable for long enough and not recently saved
should_save(now, since, last_saved) ==
    /\ now - since >= min_stable_duration
    /\ now - last_saved >= min_stable_duration

\* mutant of save_timestamp: the tick time is handed to save_frame
save_timestamp_tick(now, since) == now

\* line 248: the timestamp handed to save_frame
save_timestamp(now, since) == since

\* guard shared by the steps that decode one more frame
CanRead ==
    /\ pc = "loop"
    /\ frame_index < StreamBound
    /\ run_no = 2 => frame_index < first_run.frame_index

\* mutant of IsTick: every decoded frame is analysed
IsTick_every_frame == TRUE

\* line 218: the frame about to be decoded falls on an analysis tick
IsTick == (frame_index + 1) % check_frame_interval = 0

\* a frame between two analysis ticks: decoded, not analysed (lines 218-219)
ReadSkip ==
    /\ CanRead
    /\ ~IsTick
    /\ frame_index' = frame_index + 1
    /\ event' = "skip"
    /\ sink_result' = "none"
    /\ UNCHANGED <<extractor, cap_opened, fps, stable_frame, stable_start_time,
                   last_saved_time, frame_count, frames_buffer, current_time,
                   pc, cleanup_first, error, disk, manifest, tick_log,
                   save_ticks, sink_false, read_result,
                   earlier>>

\* the outcomes of cv2.imwrite: the file is written, or it is not and the
\* call returns False, or the call raises
SinkOutcomes ==
    {"ok", "raise"} \cup (IF sink_false < MaxSinkFalse THEN {"false"} ELSE {})

\* mutant of SaveFrame: the record is appended only when the file was written
SaveFrame_record_if_written(ref, now, imwrite) ==
    LET ts == save_timestamp(now, stable_start_time)
    IN  /\ disk' = IF imwrite = "ok"
                   THEN disk \cup {Filename(frame_count, ts)} ELSE disk
        /\ sink_false' = IF imwrite = "false" THEN sink_false + 1 ELSE sink_false
        /\ saved_frames_cache' = Append(saved_frames_cache, ref)
        /\ extracted_frames' =
               IF imwrite = "ok"
               THEN Append(extracted_frames, FrameInfo(frame_count, ts))
               ELSE extracted_frames
        /\ last_saved_time' = stable_start_time
        /\ frame_count' = frame_count + 1
        /\ stable_frame' = ref
        /\ save_ticks' = Append(save_ticks, now)
        /\ event' = "saved"
        /\ pc' = "loop"
        /\ UNCHANGED <<stable_start_time, error>>

\* mutant of SaveFrame: a save starts a new stable run at the tick time
SaveFrame_restart_since(ref, now, imwrite) ==
    LET ts == save_timestamp(now, stable_start_time)
    IN  /\ disk' = IF imwrite = "ok"
                   THEN disk \cup {Filename(frame_count, ts)} ELSE disk
        /\ sink_false' = IF imwrite = "false" THEN sink_false + 1 ELSE sink_false
        /\ saved_frames_cache' = Append(saved_frames_cache, ref)
        /\ extracted_frames' = Append(extracted_frames, FrameInfo(frame_count, ts))
        /\ last_saved_time' = stable_start_time
        /\ frame_count' = frame_count + 1
        /\ stable_frame' = ref
        /\ stable_start_time' = now
        /\ save_ticks' = Append(save_ticks, now)
        /\ event' = "saved"
        /\ pc' = "loop"
        /\ UNCHANGED error

\* mutant of SaveFrame: the cooldown runs from the tick of the save
SaveFrame_cooldown_from_tick(ref, now, imwrite) ==
    LET ts == save_timestamp(now, stable_start_time)
    IN  /\ disk' = IF imwrite = "ok"
                   THEN disk \cup {Filename(frame_count, ts)} ELSE disk
        /\ sink_false' = IF imwrite = "false" THEN sink_false + 1 ELSE sink_false
        /\ saved_frames_cache' = Append(saved_frames_cache, ref)
        /\ extracted_frames' = Append(extracted_frames, FrameInfo(frame_count, ts))
        /\ last_saved_time' = now
        /\ frame_count' = frame_count + 1
        /\ stable_frame' = ref
        /\ save_ticks' = Append(save_ticks, now)
        /\ event' = "saved"
        /\ pc' = "loop"
        /\ UNCHANGED <<stable_start_time, error>>

\* lines 155-173 and 249-254: cv2.imwrite returned (its return value is not
\* looked at): the image is cached, the record appended, and the loop
\* advances last_saved_time and frame_count
SaveFrame(ref, now, imwrite) ==
    LET ts == save_timestamp(now, stable_start_time)
    IN  /\ disk' = IF imwrite = "ok"
                   THEN disk \cup {Filename(frame_count, ts)} ELSE disk
        /\ sink_false' = IF imwrite = "false" THEN sink_false + 1 ELSE sink_false
        /\ saved_frames_cache' = Append(saved_frames_cache, ref)
        /\ extracted_frames' = Append(extracted_frames, FrameInfo(frame_count, ts))
        /\ last_saved_time' = stable_start_time
        /\ frame_count' = frame_count + 1
        /\ stable_frame' = ref
        /\ save_ticks' = Append(save_ticks, now)
        /\ event' = "saved"
        /\ pc' = "loop"
        /\ UNCHANGED <<stable_start_time, error>>

\* cv2.imwrite raises: the error leaves save_frame, extract_frames (finally:
\* cap.release()) and run (except: ... raise)
SaveFrameRaise ==
    /\ event' = "sink_raised"
    /\ pc' = "raised"
    /\ error' = "cv2.error"
    /\ UNCHANGED <<extractor, stable_frame, stable_start_time, last_saved_time,
                   frame_count, disk, save_ticks, sink_false>>

\* calculate_structural_similarity raises inside detect_fast_motion,
\* is_frame_stable or is_duplicate_frame: the error leaves extract_frames
\* (finally: cap.release()) and run (except: ... raise)
CompareRaise ==
    /\ event' = "compare_raised"
    /\ sink_result' = "none"
    /\ pc' = "raised"
    /\ error' = "cv2.error"
    /\ UNCHANGED <<extractor, stable_frame, stable_start_time, last_saved_time,
                   frame_count, disk, save_ticks, sink_false>>

\* mutant of FastMotionReset: the candidate is not cleared
FastMotionReset_keep_candidate(now) ==
    /\ stable_start_time' = now
    /\ event' = "fast_motion"
    /\ sink_result' = "none"
    /\ pc' = "loop"
    /\ UNCHANGED <<extractor, stable_frame, last_saved_time, frame_count,
                   error, disk, save_ticks, sink_false>>

\* lines 229-233: fast motion resets the tracking, and the loop continues
\* with the next frame
FastMotionReset(now) ==
    /\ stable_frame' = None
    /\ stable_start_time' = now
    /\ event' = "fast_motion"
    /\ sink_result' = "none"
    /\ pc' = "loop"
    /\ UNCHANGED <<extractor, last_saved_time, frame_count, error, disk,
                   save_ticks, sink_false>>

\* mutant of RejectDuplicate: a rejected attempt starts the cooldown
RejectDuplicate_cooldown(ref) ==
    /\ stable_frame' = ref
    /\ last_saved_time' = stable_start_time
    /\ event' = "duplicate"
    /\ sink_result' = "none"
    /\ pc' = "loop"
    /\ UNCHANGED <<extractor, stable_start_time, frame_count, error, disk,
                   save_ticks, sink_false>>

\* mutant of RejectDuplicate: a rejected attempt consumes a sequence number
RejectDuplicate_count(ref) ==
    /\ stable_frame' = ref
    /\ frame_count' = frame_count + 1
    /\ event' = "duplicate"
    /\ sink_result' = "none"
    /\ pc' = "loop"
    /\ UNCHANGED <<extractor, stable_start_time, last_saved_time, error, disk,
                   save_ticks, sink_false>>

\* lines 151-153, 249-254: save_frame finds a duplicate and returns None;
\* the loop keeps the reference frame as candidate
RejectDuplicate(ref) ==
    /\ stable_frame' = ref
    /\ event' = "duplicate"
    /\ sink_result' = "none"
    /\ pc' = "loop"
    /\ UNCHANGED <<extractor, stable_start_time, last_saved_time, frame_count,
                   error, disk, save_ticks, sink_false>>

\* one analysis tick: the body of the loop for a frame whose index is a
\* multiple of check_frame_interval (lines 210-258)
Tick(frame) ==
    LET now == PosMsec(frame_index + 1)
        buf == BufferPush(frames_buffer, frame)
        motion == detect_fast_motion(buf)
        chk == is_frame_stable(frame, stable_frame)
        attempt == should_save(now, stable_start_time, last_saved_time)
        dup == is_duplicate_frame(chk.reference_frame, saved_frames_cache)
    IN  /\ CanRead
        /\ IsTick
        /\ AllowedStream(Append(tick_log, frame), frame_index + 1)
        /\ runs = 2 => SlideShow(Append(tick_log, frame))
        /\ run_no = 2 => frame = first_run.tick_log[Len(tick_log) + 1]
        /\ frame_index' = frame_index + 1
        /\ current_time' = now
        /\ frames_buffer' = buf
        /\ tick_log' = Append(tick_log, frame)
        /\ UNCHANGED <<cap_opened, fps, cleanup_first, manifest, read_result,
                       earlier>>
        /\ IF motion_raises(buf)
           THEN CompareRaise
           ELSE IF motion
           THEN FastMotionReset(now)
           ELSE IF stable_raises(frame, stable_frame)
           THEN CompareRaise
           ELSE IF ~chk.is_stable
           THEN \* lines 255-258: new scene
                /\ stable_frame' = chk.reference_frame
                /\ stable_start_time' = now
                /\ event' = "new_scene"
                /\ sink_result' = "none"
                /\ pc' = "loop"
                /\ UNCHANGED <<extractor, last_saved_time, frame_count, error,
                               disk, save_ticks, sink_false>>
           ELSE IF ~attempt
           THEN \* lines 240-246: stable, the save condition is false
                /\ event' = "stable"
                /\ sink_result' = "none"
                /\ pc' = "loop"
                /\ UNCHANGED <<extractor, stable_frame, stable_start_time,
                               last_saved_time, frame_count, error, disk,
                               save_ticks, sink_false>>
           ELSE IF duplicate_raises(chk.reference_frame, saved_frames_cache)
           THEN CompareRaise
           ELSE IF dup
           THEN RejectDuplicate(chk.reference_frame)
           ELSE \* line 158: cv2.imwrite is called
                \E imwrite \in SinkOutcomes :
                    /\ sink_result' = imwrite
                    /\ IF imwrite = "raise"
                       THEN SaveFrameRaise
                       ELSE SaveFrame(chk.reference_frame, now, imwrite)

\* cap.read() returns ret = False (end of stream, or a frame that cannot be
\* decoded): break, cap.release(), return to run(), save_metadata(), return
ReadFalse(why) ==
    /\ pc = "loop"
    /\ run_no = 2 => (/\ frame_index = first_run.frame_index
                      /\ why = first_run.read_result)
    /\ read_result' = why
    /\ manifest' = <<Metadata(extracted_frames)>>
    /\ pc' = "done"
    /\ event' = "read_false"
    /\ sink_result' = "none"
    /\ UNCHANGED <<extractor, cap_opened, fps, locals, cleanup_first, error,
                   disk, tick_log, save_ticks, sink_false,
                   earlier>>

\* cap.read() raises: finally: cap.release(), the error leaves extract_frames
\* and is re-raised by run(); save_metadata is not reached
ReadRaise ==
    /\ pc = "loop"
    /\ read_result' = "fail_raise"
    /\ pc' = "raised"
    /\ error' = "cv2.error"
    /\ event' = "read_raised"
    /\ sink_result' = "none"
    /\ UNCHANGED <<extractor, cap_opened, fps, locals, cleanup_first, disk,
                   manifest, tick_log, save_ticks, sink_false,
                   earlier>>

\* the user interrupts the driving loop (Ctrl-C): KeyboardInterrupt passes
\* finally: cap.release() and is not an Exception, so run()'s handler does
\* not see it; save_metadata is not reached
Interrupt ==
    /\ pc = "loop"
    /\ pc' = "raised"
    /\ error' = "KeyboardInterrupt"
    /\ event' = "interrupted"
    /\ sink_result' = "none"
    /\ UNCHANGED <<extractor, cap_opened, fps, locals, cleanup_first, disk,
                   manifest, tick_log, save_ticks, sink_false, read_result,
                   earlier>>

Next ==
    \/ \E cf \in BOOLEAN : RunStart(cf)
    \/ OpenFail
    \/ \E f \in FpsSet : OpenOk(f)
    \/ ReadSkip
    \/ \E frame \in Slides : Tick(frame)
    \/ \E why \in {"eof", "fail_false"} : ReadFalse(why)
    \/ ReadRaise
    \/ Interrupt

Spec == Init /\ [][Next]_vars

\* ------------------------------------------- cleanup that cannot remove
\* what os.remove fails on in the cases considered (the error is caught and
\* logged, lines 301-312): everything, or one frame file
KeptChoices ==
    {[frames |-> PrevDisk, metadata |-> TRUE],
     [frames |-> {Filename(1, 7000)}, metadata |-> FALSE]}

\* mutant of RunStartKeep: a frame file that could not be removed is reported
\* as removed all the same
RunStartKeep_forgets(k) ==
    /\ pc = "idle"
    /\ cleanup_first' = TRUE
    /\ kept' = NothingKept
    /\ disk' = disk \cap k.frames
    /\ manifest' = IF k.metadata THEN manifest ELSE <<>>
    /\ pc' = "open"
    /\ event' = "start"
    /\ UNCHANGED <<extractor, cap_opened, fps, locals, error, history,
                   read_result, runs, run_no, first_run>>

\* run(cleanup_first=True) up to the call of extract_frames, when os.remove
\* fails on some of the old files: they stay in output_folder
RunStartKeep(k) ==
    /\ pc = "idle"
    /\ cleanup_first' = TRUE
    /\ kept' = k
    /\ disk' = disk \cap k.frames
    /\ manifest' = IF k.metadata THEN manifest ELSE <<>>
    /\ pc' = "open"
    /\ event' = "start"
    /\ UNCHANGED <<extractor, cap_opened, fps, locals, error, history,
                   read_result, runs, run_no, first_run>>

NextCleanup ==
    \/ Next
    \/ \E k \in KeptChoices : RunStartKeep(k)

SpecCleanup == Init /\ [][NextCleanup]_vars

\* ------------------------------------------------- a second call of run()
\* run(cleanup_first) is called again after it has returned, for the same
\* video: on the same extractor object, or (fresh) on a new one made by
\* __init__ with the same arguments.  The source shows in the second run what
\* it showed in the first (see the guards on run_no in OpenOk, CanRead, Tick
\* and ReadFalse).
RunAgain(cf, fresh) ==
    /\ pc = "done"
    /\ run_no < runs
    /\ run_no' = run_no + 1
    /\ runs' = runs
    /\ kept' = kept
    /\ first_run' = [fps |-> fps,
                     tick_log |-> tick_log,
                     frame_index |-> frame_index,
                     read_result |-> read_result,
                     frames |-> manifest[1].frames]
    /\ extracted_frames' = IF fresh THEN <<>> ELSE extracted_frames
    /\ saved_frames_cache' = IF fresh THEN <<>> ELSE saved_frames_cache
    /\ cleanup_first' = cf
    /\ disk' = IF cf THEN {} ELSE disk
    /\ manifest' = IF cf THEN <<>> ELSE manifest
    /\ pc' = "open"
    /\ event' = "start"
    /\ tick_log' = <<>>
    /\ save_ticks' = <<>>
    /\ sink_result' = "none"
    /\ read_result' = "none"
    /\ UNCHANGED <<cap_opened, fps, locals, error, sink_false>>

NextTwice ==
    \/ Next
    \/ \E cf, fresh \in BOOLEAN : RunAgain(cf, fresh)

InitTwice == InitRuns(2)

SpecTwice == InitTwice /\ [][NextTwice]_vars

\* ------------------------------------------ the functions on their own
\* sequences over S of length at most n
RECURSIVE SeqsUpTo(_, _)
SeqsUpTo(S, n) ==
    IF n = 0 THEN {<<>>}
    ELSE LET shorter == SeqsUpTo(S, n - 1)
         IN shorter \cup {Append(q, x) : q \in shorter, x \in S}

\* a cache the loop can have built: frames of one size, no frame a duplicate
\* of an earlier one
PossibleCache(cache) ==
    \A i, j \in 1..Len(cache) :
        i < j => /\ Comparable(cache[j], cache[i])
                 /\ ~is_duplicate_frame(cache[j], <<cache[i]>>)

\* an extractor whose cache and records hold earlier saves, about to call
\* is_duplicate_frame(frame) (frame is held in stable_frame), or a loop about
\* to call detect_fast_motion(frames_buffer), or to call
\* is_frame_stable(frame, stable_frame) for the frame it has just put in the
\* buffer
InitFn ==
    /\ runs = 1
    /\ run_no = 1
    /\ first_run = <<>>
    /\ kept = NothingKept
    /\ cap_opened = TRUE
    /\ fps = 1
    /\ stable_start_time = 0
    /\ last_saved_time = InitLastSaved
    /\ frame_index = 0
    /\ current_time = 0
    /\ cleanup_first = FALSE
    /\ error = "none"
    /\ disk = PrevDisk
    /\ manifest = <<PrevManifest>>
    /\ tick_log = <<>>
    /\ event = "none"
    /\ save_ticks = <<>>
    /\ sink_result = "none"
    /\ sink_false = 0
    /\ read_result = "none"
    /\ \/ /\ pc = "call_is_duplicate_frame"
          /\ stable_frame \in Frames
          /\ saved_frames_cache \in
                 {c \in SeqsUpTo(Frames, MaxCacheLen) : PossibleCache(c)}
          /\ extracted_frames =
                 [i \in 1..Len(saved_frames_cache) |->
                      FrameInfo(i - 1, (i - 1) * min_stable_duration)]
          /\ frame_count = Len(saved_frames_cache)
          /\ frames_buffer = <<>>
       \/ /\ pc = "call_detect_fast_motion"
          /\ frames_buffer \in SeqsUpTo(Slides, buffer_size)
          /\ stable_frame = None
          /\ saved_frames_cache = <<>>
          /\ extracted_frames = <<>>
          /\ frame_count = 0
       \/ /\ pc = "call_is_frame_stable"
          /\ frames_buffer \in {<<f>> : f \in Frames}
          /\ stable_frame \in Frames \cup {None}
          /\ saved_frames_cache = <<>>
          /\ extracted_frames = <<>>
          /\ frame_count = 0

\* is_duplicate_frame(frame) returns or raises
CallIsDuplicateFrame ==
    /\ pc = "call_is_duplicate_frame"
    /\ pc' = "returned_is_duplicate_frame"
    /\ event' = IF duplicate_raises(stable_frame, saved_frames_cache)
                THEN "compare_raised"
                ELSE IF is_duplicate_frame(stable_frame, saved_frames_cache)
                THEN "True" ELSE "False"
    /\ UNCHANGED <<extractor, cap_opened, fps, locals, cleanup_first, error,
                   disk, manifest, history, read_result, earlier>>

\* detect_fast_motion(frames_buffer) returns or raises
CallDetectFastMotion ==
    /\ pc = "call_detect_fast_motion"
    /\ pc' = "returned_detect_fast_motion"
    /\ event' = IF motion_raises(frames_buffer)
                THEN "compare_raised"
                ELSE IF detect_fast_motion(frames_buffer)
                THEN "True" ELSE "False"
    /\ UNCHANGED <<extractor, cap_opened, fps, locals, cleanup_first, error,
                   disk, manifest, history, read_result, earlier>>

\* is_frame_stable(frame, stable_frame, duration) returns or raises; event
\* takes the first component of the result
CallIsFrameStable ==
    /\ pc = "call_is_frame_stable"
    /\ pc' = "returned_is_frame_stable"
    /\ event' = IF stable_raises(frames_buffer[Len(frames_buffer)], stable_frame)
                THEN "compare_raised"
                ELSE IF is_frame_stable(frames_buffer[Len(frames_buffer)], stable_frame).is_stable
                THEN "True" ELSE "False"
    /\ UNCHANGED <<extractor, cap_opened, fps, locals, cleanup_first, error,
                   disk, manifest, history, read_result, earlier>>

NextFn ==
    \/ CallIsDuplicateFrame
    \/ CallDetectFastMotion
    \/ CallIsFrameStable

SpecFn == InitFn /\ [][NextFn]_vars

\* ================================================================ claims
Last(seq) == seq[Len(seq)]
\* stream time of the k-th analysis tick of the run
TickTime(k) == PosMsec(k * check_frame_interval)
\* both measures above similarityThreshold
Similar(a, b) ==
    /\ Comparable(a, b)
    /\ HistSimAbove(a, b, similarity_threshold)
    /\ StructSimAbove(a, b, similarity_threshold)
\* both measures above duplicateThreshold
Duplicates(a, b) ==
    /\ Comparable(a, b)
    /\ HistSimAbove(a, b, duplicate_threshold)
    /\ StructSimAbove(a, b, duplicate_threshold)
\* the structural difference of a and b is more than (100 - pct) / 100
DiffersMoreThan(a, b, pct) ==
    /\ Comparable(a, b)
    /\ StructNum(a, b) * 100 < pct * StructDen(a)
ConstantLog == \A i \in 1..Len(tick_log) : tick_log[i] = tick_log[1]
\* ticks in minStableDuration + checkInterval seconds of stream
WindowTicks == (min_stable_duration + check_interval) \div check_interval

\* C1: a run over a stream of one constant frame lasting minStableDuration +
\* checkInterval seconds (6 ticks, one per second) that ends at the end of the
\* stream has made exactly one save, and its record carries timestamp 0.
C1_ConstantStreamOneSave ==
    (/\ pc = "done"
     /\ frame_index = WindowTicks * check_frame_interval
     /\ Len(tick_log) = WindowTicks
     /\ ConstantLog)
    => /\ Len(extracted_frames) = 1
       /\ Len(save_ticks) = 1
       /\ extracted_frames[1].timestamp = 0
       /\ extracted_frames[1].frame_number = 0
       /\ saved_frames_cache = <<tick_log[1]>>
       /\ (sink_false = 0 => Filename(0, 0) \in disk)

C1_Witness ==
    /\ pc = "done"
    /\ fps = 1
    /\ read_result = "eof"
    /\ sink_false = 0
    /\ frame_index = WindowTicks
    /\ Len(tick_log) = WindowTicks
    /\ ConstantLog
    /\ Len(extracted_frames) = 1
    /\ current_time = min_stable_duration

\* C2: in a stream where every tick frame differs from the frame of the tick
\* before by more than 1 - similarityThreshold (or by more than
\* motionThreshold), no save ever occurs.
C2_NoSaveWhenEveryTickChanges ==
    (\A i \in 1..(Len(tick_log) - 1) :
        \/ DiffersMoreThan(tick_log[i + 1], tick_log[i], similarity_threshold)
        \/ DiffersMoreThan(tick_log[i + 1], tick_log[i], 100 - motion_threshold))
    => extracted_frames = <<>>

\* C3: no two entries of SavedFrameCache exceed duplicateThreshold against
\* each other on both measures: a slide whose content is already in the cache
\* is never saved again, also when it is shown again after another slide.
C3_NoDuplicateInCache ==
    \A i, j \in 1..Len(saved_frames_cache) :
        i < j => ~Duplicates(saved_frames_cache[j], saved_frames_cache[i])

\* slide A saved, slide B saved after it, A shown again for minStableDuration:
\* the save of A is attempted and rejected
C3_Witness ==
    /\ event = "duplicate"
    /\ Len(saved_frames_cache) = 2
    /\ stable_frame = saved_frames_cache[1]
    /\ Last(tick_log) = saved_frames_cache[1]
    /\ stable_start_time > extracted_frames[2].timestamp
    /\ current_time - stable_start_time >= min_stable_duration

\* a maximal-or-not run of one unchanged slide from tick i to tick j
Shown(i, j) == \A k \in i..j : tick_log[k] = tick_log[i]

\* C4: when the stream has ended (no write having failed), every slide that was distinct from the slide
\* before it and from every other saved slide and was shown unchanged for at
\* least minStableDuration after it first appeared has been saved.
C4_DistinctStableSlideSaved ==
    (pc = "done" /\ sink_false = 0) =>
        \A i, j \in 1..Len(tick_log) :
            (/\ i <= j
             /\ Shown(i, j)
             /\ TickTime(j) - TickTime(i) >= min_stable_duration
             /\ i > 1 => ~Similar(tick_log[i], tick_log[i - 1])
             /\ \A c \in 1..Len(saved_frames_cache) :
                    \/ saved_frames_cache[c] = tick_log[i]
                    \/ ~Similar(tick_log[i], saved_frames_cache[c]))
            => \E c \in 1..Len(saved_frames_cache) :
                    saved_frames_cache[c] = tick_log[i]

\* C5: the records and the cache have the same length in every state, and
\* every step leaves both alone or appends exactly one entry to each.
C5_Lockstep ==
    /\ Len(extracted_frames) = Len(saved_frames_cache)
    /\ [][/\ Len(extracted_frames') = Len(saved_frames_cache')
           /\ \/ /\ extracted_frames' = extracted_frames
                 /\ saved_frames_cache' = saved_frames_cache
              \/ /\ Len(extracted_frames') = Len(extracted_frames) + 1
                 /\ SubSeq(extracted_frames', 1, Len(extracted_frames))
                        = extracted_frames
                 /\ SubSeq(saved_frames_cache', 1, Len(saved_frames_cache))
                        = saved_frames_cache]_vars

\* a save, a rejected duplicate and a sink failure have all happened
C5_Witness ==
    /\ event = "duplicate"
    /\ sink_false = 1
    /\ Len(extracted_frames) = 2

\* C6: whenever a save happens at tick time T with recorded timestamp since,
\* the saved image was observed at a tick no later than T - minStableDuration
\* and every tick in [since, T] saw a frame similar to it.
C6_SavedOnlyIfStable ==
    event = "saved" =>
        LET img == Last(saved_frames_cache)
            since == Last(extracted_frames).timestamp
        IN  /\ \E k \in 1..Len(tick_log) :
                   /\ tick_log[k] = img
                   /\ TickTime(k) <= current_time - min_stable_duration
            /\ \A k \in 1..Len(tick_log) :
                   TickTime(k) >= since => Similar(tick_log[k], img)

\* C7: two successive saves of one run happen at tick times at least
\* minStableDuration apart.
C7_SavesRateLimited ==
    \A i \in 1..(Len(save_ticks) - 1) :
        save_ticks[i + 1] - save_ticks[i] >= min_stable_duration

C7_Witness ==
    /\ Len(save_ticks) = 2
    /\ event = "saved"
    /\ save_ticks[2] - save_ticks[1] = min_stable_duration + check_interval

\* C8: a step in which cv2.imwrite fails (returns False or raises) adds
\* nothing to the cache or the records, leaves lastSavedTime and the next
\* sequence number unchanged, and leaves the run in its loop.
C8_SinkFailureNotSaved ==
    [][sink_result' \in {"false", "raise"} =>
          /\ saved_frames_cache' = saved_frames_cache
          /\ extracted_frames' = extracted_frames
          /\ last_saved_time' = last_saved_time
          /\ frame_count' = frame_count
          /\ pc' = "loop"]_vars

\* C9: when the source cannot be opened, run() ends with ValueError raised,
\* no frame decoded or analysed, cache and records empty, nothing written
\* to the output folder and no manifest written.
C9_OpenFailureIsFatal ==
    (pc \notin {"idle", "open"} /\ ~cap_opened) =>
        /\ pc = "raised"
        /\ error = "ValueError"
        /\ frame_index = 0
        /\ tick_log = <<>>
        /\ saved_frames_cache = <<>>
        /\ extracted_frames = <<>>
        /\ disk \subseteq PrevDisk
        /\ manifest \in {<<>>, <<PrevManifest>>}

C9_Witness ==
    /\ pc = "raised"
    /\ ~cap_opened
    /\ event = "open_failed"
    /\ cleanup_first
    /\ manifest = <<>>

\* C10: when reading a frame fails in mid-stream, by an unsuccessful read or
\* by a raised error, after frames have been saved, the run ends with the
\* records saved so far written to the manifest.
C10_DecodeFailureFlushes ==
    (read_result \in {"fail_false", "fail_raise"} /\ extracted_frames # <<>>) =>
        /\ manifest = <<Metadata(extracted_frames)>>
        /\ pc = "done"

\* C11: a tick on which a similarity computation fails on a malformed frame
\* leaves the run in its loop with no error raised to the caller of run().
C11_ComparisonFailureAbsorbed ==
    event = "compare_raised" => (pc = "loop" /\ error = "none")

\* C12: when the driving loop has been stopped, by the end of the stream or
\* by a user interrupt, after frames have been saved, the records saved so
\* far have been written to the manifest.
C12_StopEmitsManifest ==
    (/\ read_result = "eof" \/ error = "KeyboardInterrupt"
     /\ extracted_frames # <<>>)
    => manifest = <<Metadata(extracted_frames)>>

\* C13: when a video has been processed twice, by the same extractor object
\* or by a new one, and both runs have returned, the manifest of the second
\* run holds the records of the manifest of the first, in the same order.
C13_SecondRunSameRecords ==
    (run_no = 2 /\ pc = "done") => manifest[1].frames = first_run.frames

\* two frames were saved in the first run, and the second run was made with
\* the same extractor object
C13_Witness ==
    /\ run_no = 2
    /\ pc = "done"
    /\ Len(first_run.frames) = 2
    /\ Len(saved_frames_cache) = 2
    /\ save_ticks = <<>>

\* the configuration the run works with (the five thresholds of __init__)
ConfigurationUsed ==
    [similarity_threshold |-> similarity_threshold,
     min_stable_duration |-> min_stable_duration,
     check_interval |-> check_interval,
     motion_threshold |-> motion_threshold,
     duplicate_threshold |-> duplicate_threshold]

\* C14: the manifest written at the end of a run holds the records in order
\* and each of the five configuration fields, with the value the run used.
C14_ManifestHasConfiguration ==
    pc = "done" =>
        /\ manifest[1].frames = extracted_frames
        /\ \A name \in DOMAIN ConfigurationUsed :
               /\ name \in DOMAIN manifest[1].parameters
               /\ manifest[1].parameters[name] = ConfigurationUsed[name]

\* C15: is_duplicate_frame returns True exactly when some cached frame is
\* above duplicateThreshold against the candidate on both measures; it
\* returns False when every cached frame is at or below the threshold on at
\* least one measure, and for every candidate when the cache is empty.
C15_DuplicateIffBothAbove ==
    (pc = "returned_is_duplicate_frame" /\ event # "compare_raised") =>
        /\ event = "True" <=>
               \E i \in 1..Len(saved_frames_cache) :
                   Duplicates(stable_frame, saved_frames_cache[i])
        /\ (\A i \in 1..Len(saved_frames_cache) :
               \/ ~HistSimAbove(stable_frame, saved_frames_cache[i],
                                duplicate_threshold)
               \/ ~StructSimAbove(stable_frame, saved_frames_cache[i],
                                  duplicate_threshold))
           => event = "False"
        /\ saved_frames_cache = <<>> => event = "False"

\* not a duplicate although the first cached frame is above the threshold on
\* the histogram measure alone and the second on the structural measure alone
C15_Witness ==
    /\ pc = "returned_is_duplicate_frame"
    /\ event = "False"
    /\ Len(saved_frames_cache) = 2
    /\ HistSimAbove(stable_frame, saved_frames_cache[1], duplicate_threshold)
    /\ ~StructSimAbove(stable_frame, saved_frames_cache[1], duplicate_threshold)
    /\ ~HistSimAbove(stable_frame, saved_frames_cache[2], duplicate_threshold)
    /\ StructSimAbove(stable_frame, saved_frames_cache[2], duplicate_threshold)

\* sum of the structural similarities (as numerators over StructDen) of the
\* adjacent pairs buf[i], buf[i + 1] for i = k .. Len(buf) - 1
RECURSIVE PairSimSum(_, _)
PairSimSum(buf, k) ==
    IF k >= Len(buf) THEN 0
    ELSE StructNum(buf[k], buf[k + 1]) + PairSimSum(buf, k + 1)
\* the average over the adjacent pairs is strictly below 1 - motionThreshold
AverageBelowGate(buf) ==
    PairSimSum(buf, 1) * 100
        < (100 - motion_threshold) * (Len(buf) - 1) * StructDen(buf[1])

\* C16: detect_fast_motion returns True exactly when the buffer holds at
\* least 3 frames and the average structural similarity of its adjacent pairs
\* is strictly below 1 - motionThreshold; with fewer than 3 frames it returns
\* False; the call changes neither the buffer nor any other state.
C16_MotionGateIffAverageBelow ==
    /\ []((pc = "returned_detect_fast_motion" /\ event # "compare_raised") =>
             /\ event = "True" <=>
                    (Len(frames_buffer) >= 3 /\ AverageBelowGate(frames_buffer))
             /\ Len(frames_buffer) < 3 => event = "False")
    /\ [][pc = "call_detect_fast_motion" =>
             /\ frames_buffer' = frames_buffer
             /\ UNCHANGED <<extractor, stable_frame, stable_start_time,
                            last_saved_time, frame_count, disk, manifest>>]_vars

\* three buffered frames, the last two equal: the average (0.5) is below 0.8
C16_Witness ==
    /\ pc = "returned_detect_fast_motion"
    /\ event = "True"
    /\ Len(frames_buffer) = 3
    /\ frames_buffer[2] = frames_buffer[3]
    /\ frames_buffer[1] = Blk
    /\ frames_buffer[2] = Wht

\* C17: when the source has been opened for a run, the cache and the records
\* are empty, and the manifest written at the end of a run holds exactly the
\* records of the saves of that run.
C17_EveryRunStartsEmpty ==
    /\ event = "opened" =>
           (saved_frames_cache = <<>> /\ extracted_frames = <<>>)
    /\ pc = "done" => Len(manifest[1].frames) = Len(save_ticks)

\* a step that analyses one more frame of the run
TickStep == Len(tick_log') = Len(tick_log) + 1
\* the motion gate, applied to the buffer of the tick, flags fast motion
GateFlags ==
    /\ TickStep
    /\ ~motion_raises(frames_buffer')
    /\ detect_fast_motion(frames_buffer')

\* C18: a tick at time T on which the motion gate flags fast motion clears
\* the candidate and sets since to T; it makes no save attempt, and leaves
\* lastSavedTime, the cache, the records, the next sequence number and the
\* output folder as they were, and the run in its loop.
C18_FastMotionOnlyResets ==
    [][GateFlags =>
          /\ event' = "fast_motion"
          /\ stable_frame' = None
          /\ stable_start_time' = current_time'
          /\ sink_result' = "none"
          /\ UNCHANGED <<last_saved_time, saved_frames_cache, extracted_frames,
                         frame_count, disk, manifest>>
          /\ pc' = "loop"]_vars

\* fast motion after a save: the candidate that was kept is gone
C18_Witness ==
    /\ event = "fast_motion"
    /\ extracted_frames # <<>>
    /\ stable_frame = None
    /\ stable_start_time = current_time
    /\ current_time > last_saved_time + min_stable_duration

\* C19: a tick at time T without fast motion, taken when there is no
\* candidate, makes the tick's frame the candidate and sets since to T.
C19_NoCandidateAdoptsFrame ==
    [][(/\ TickStep
        /\ stable_frame = None
        /\ pc' = "loop"
        /\ event' # "fast_motion")
       => /\ stable_frame' = Last(tick_log')
          /\ stable_start_time' = current_time']_vars

\* a tick without fast motion whose frame is similar to the existing candidate
SimilarTick ==
    /\ TickStep
    /\ stable_frame # None
    /\ event' \notin {"fast_motion", "compare_raised"}
    /\ Similar(Last(tick_log'), stable_frame)

NotSimilarTick ==
    /\ TickStep
    /\ stable_frame # None
    /\ ~Similar(Last(tick_log'), stable_frame)

\* C21: within a run since changes only on a tick on which the motion gate
\* flags fast motion or whose frame is not similar to the candidate, and
\* such a tick sets it to the tick time; every other step (a tick with a
\* similar frame or without a candidate, a frame between ticks, a save
\* attempt, the end of the run) leaves it as it was.
C21_SinceChangesOnlyOnReset ==
    [][/\ stable_start_time' # stable_start_time =>
             /\ GateFlags \/ NotSimilarTick
             /\ stable_start_time' = current_time'
       /\ ((GateFlags \/ NotSimilarTick) /\ event' # "compare_raised") =>
             stable_start_time' = current_time']_vars

\* a new scene after a save: since moved to the tick time
C21_Witness ==
    /\ event = "new_scene"
    /\ extracted_frames # <<>>
    /\ stable_start_time = current_time
    /\ current_time > min_stable_duration

\* what a new scene does: the tick's frame becomes the candidate, since
\* becomes the tick time, and no save is attempted
NewSceneEffect ==
    /\ stable_frame' = Last(tick_log')
    /\ stable_start_time' = current_time'
    /\ sink_result' = "none"
    /\ event' \notin {"saved", "duplicate", "sink_raised"}
    /\ UNCHANGED <<saved_frames_cache, extracted_frames, last_saved_time,
                   frame_count, disk>>

\* C22 (as stated): on a tick whose frame is not similar to the existing
\* candidate (the two can be compared), the frame becomes the candidate and
\* no save is attempted.
C22_NotSimilarStartsScene ==
    [][(NotSimilarTick /\ Comparable(Last(tick_log'), stable_frame)
          /\ ~motion_raises(frames_buffer'))
       => NewSceneEffect]_vars

\* C22 (amended): the same, on a tick on which the motion gate does not flag
\* fast motion.
C22_NotSimilarNoMotionStartsScene ==
    [][(NotSimilarTick /\ Comparable(Last(tick_log'), stable_frame)
          /\ ~motion_raises(frames_buffer') /\ ~GateFlags)
       => NewSceneEffect]_vars

\* Blk was saved and had been stable for minStableDuration; Mid, not similar
\* to it, becomes the candidate and nothing is saved on that tick
C22_Witness ==
    /\ event = "new_scene"
    /\ saved_frames_cache = <<Blk>>
    /\ stable_frame = Mid
    /\ Last(tick_log) = Mid
    /\ stable_start_time = current_time
    /\ current_time >= min_stable_duration + check_interval

\* C23: is_frame_stable, given a candidate, classifies the frame as similar
\* exactly when the histogram similarity and the structural similarity are
\* each strictly above similarityThreshold; above on one measure and at or
\* below on the other is a scene change.
C23_SimilarIffBothAbove ==
    (/\ pc = "returned_is_frame_stable"
     /\ stable_frame # None
     /\ event # "compare_raised")
    => LET F == Last(frames_buffer)
           hist == HistSimAbove(F, stable_frame, similarity_threshold)
           struct == StructSimAbove(F, stable_frame, similarity_threshold)
       IN  /\ event = "True" <=> (hist /\ struct)
           /\ (hist # struct) => event = "False"

\* histogram similarity above the threshold, structural similarity exactly
\* at it: a scene change
C23_Witness ==
    /\ pc = "returned_is_frame_stable"
    /\ event = "False"
    /\ stable_frame = Blk
    /\ HistSimAbove(Last(frames_buffer), Blk, similarity_threshold)
    /\ StructNum(Last(frames_buffer), Blk) * 100
           = similarity_threshold * StructDen(Blk)

\* a tick on which the gate does not flag fast motion and no comparison fails
QuietTick ==
    /\ TickStep
    /\ ~motion_raises(frames_buffer')
    /\ ~GateFlags
    /\ event' # "compare_raised"
\* the step called save_frame
SaveAttempted == event' \in {"saved", "duplicate", "sink_raised"}

\* C24: on a tick at time T without fast motion a save is attempted exactly
\* when, with since as the tick leaves it, T - since >= minStableDuration and
\* T - lastSavedTime >= minStableDuration; the image handed to the save is
\* the candidate the tick leaves, and a record made carries since as its
\* timestamp (also in its file name), not T.
C24_SaveAttemptedIffStableLongEnough ==
    [][QuietTick =>
          /\ SaveAttempted <=>
                 /\ current_time' - stable_start_time' >= min_stable_duration
                 /\ current_time' - last_saved_time >= min_stable_duration
          /\ event' \in {"saved", "duplicate"} =>
                 stable_frame' = (IF stable_frame = None
                                  THEN Last(tick_log') ELSE stable_frame)
          /\ event' = "saved" =>
                 /\ Last(saved_frames_cache') = stable_frame'
                 /\ Last(extracted_frames').timestamp = stable_start_time'
                 /\ Last(extracted_frames').filename =
                        Filename(frame_count, stable_start_time')]_vars

\* a slide that appeared at 6 s is saved at the tick of 11 s with timestamp 6 s
C24_Witness ==
    /\ event = "saved"
    /\ Len(extracted_frames) = 2
    /\ Last(extracted_frames).timestamp = stable_start_time
    /\ stable_start_time = min_stable_duration + check_interval
    /\ current_time = stable_start_time + min_stable_duration

\* the image a save attempt of this step hands to save_frame
AttemptImage == IF stable_frame = None THEN Last(tick_log') ELSE stable_frame
\* some frame of the cache is above duplicateThreshold against img on both
\* measures
InCache(img) ==
    \E i \in 1..Len(saved_frames_cache) :
        Duplicates(img, saved_frames_cache[i])

\* C25: a save attempt whose image is a duplicate of a cached frame writes
\* no file and leaves the cache, the records, lastSavedTime and the next
\* sequence number unchanged; a step that changes one of these four is a
\* save of an image that is no duplicate of a cached frame.
C25_DuplicateAttemptChangesNothing ==
    [][/\ (QuietTick /\ SaveAttempted /\ InCache(AttemptImage)) =>
             /\ event' = "duplicate"
             /\ sink_result' = "none"
             /\ UNCHANGED <<disk, saved_frames_cache, extracted_frames,
                            last_saved_time, frame_count>>
       /\ (\/ saved_frames_cache' # saved_frames_cache
           \/ extracted_frames' # extracted_frames
           \/ last_saved_time' # last_saved_time
           \/ frame_count' # frame_count) =>
             /\ QuietTick
             /\ event' = "saved"
             /\ ~InCache(AttemptImage)
             /\ saved_frames_cache' = Append(saved_frames_cache, AttemptImage)
             /\ Len(extracted_frames') = Len(extracted_frames) + 1
             /\ last_saved_time' = stable_start_time
             /\ frame_count' = frame_count + 1]_vars

\* the slide saved first is shown again for minStableDuration after another
\* one: the attempt is rejected, two frames stay in the cache
C25_Witness ==
    /\ event = "duplicate"
    /\ Len(saved_frames_cache) = 2
    /\ Len(extracted_frames) = 2
    /\ frame_count = 2
    /\ stable_frame = saved_frames_cache[1]
    /\ last_saved_time = extracted_frames[2].timestamp
    /\ sink_false = 0

\* a step that decodes a frame whose 1-based index is not a multiple of the
\* check interval in frames
DecodesOffTick ==
    /\ frame_index' = frame_index + 1
    /\ frame_index' % check_frame_interval # 0

\* C26: a frame decoded between two analysis ticks changes neither the
\* motion buffer, the candidate, since, lastSavedTime, the cache nor the
\* records, writes no file and is not analysed.
C26_OffTickFrameOnlyDecoded ==
    [][DecodesOffTick =>
          /\ UNCHANGED <<frames_buffer, stable_frame, stable_start_time,
                         last_saved_time, saved_frames_cache, extracted_frames,
                         frame_count, disk, current_time, tick_log>>
          /\ sink_result' = "none"
          /\ pc' = "loop"]_vars

\* at 2 frames per second: the frame after the tick that saved
C26_Witness ==
    /\ event = "skip"
    /\ fps = 2
    /\ Len(extracted_frames) = 1
    /\ frame_index % check_frame_interval = 1
    /\ frames_buffer # <<>>
    /\ current_time = PosMsec(frame_index - 1)

\* C27: in a run on a fresh extractor the next sequence number equals the
\* number of records, the i-th record carries the number i - 1, and no two
\* records share a sequence number or a file name.
C27_SequenceNumbersContiguous ==
    /\ frame_count = Len(extracted_frames)
    /\ \A i \in 1..Len(extracted_frames) :
           /\ extracted_frames[i].frame_number = i - 1
           /\ extracted_frames[i].filename[1] = i - 1
    /\ \A i, j \in 1..Len(extracted_frames) :
           i # j => /\ extracted_frames[i].frame_number
                        # extracted_frames[j].frame_number
                    /\ extracted_frames[i].filename # extracted_frames[j].filename

\* the first slide is saved at 5 s, re-attempted and rejected on the ticks of
\* 6 s to 11 s, and the second slide is saved at 17 s with number 1
C27_Witness ==
    /\ event = "saved"
    /\ frame_count = 2
    /\ save_ticks = <<min_stable_duration,
                      3 * min_stable_duration + 2 * check_interval>>
    /\ Last(extracted_frames).frame_number = 1

\* C28: lastSavedTime <= since in every state of the loop; so on a tick
\* without fast motion with T - since >= minStableDuration a save is
\* attempted whatever lastSavedTime is, and on a tick that goes on with the
\* candidate of a save or of a rejected attempt the save is attempted again
\* and rejected as a duplicate.
C28_CooldownNeverBlocks ==
    /\ [](last_saved_time <= stable_start_time)
    /\ [][/\ (/\ QuietTick
               /\ current_time' - stable_start_time' >= min_stable_duration)
              => SaveAttempted
          /\ (/\ event \in {"saved", "duplicate"}
              /\ QuietTick
              /\ SimilarTick)
             => event' = "duplicate"]_vars

\* the tick after the save of a stable slide: attempted again, rejected
C28_Witness ==
    /\ event = "duplicate"
    /\ saved_frames_cache = <<stable_frame>>
    /\ last_saved_time = stable_start_time
    /\ current_time = stable_start_time + min_stable_duration + check_interval
    /\ save_ticks = <<stable_start_time + min_stable_duration>>

\* the frame files on disk that the records of this run name
WrittenByRun ==
    {extracted_frames[i].filename : i \in 1..Len(extracted_frames)}
\* run(cleanup_first=True) has cleaned up and has not returned: the source is
\* about to be opened, or the run has ended with an error
CleanedNotReturned == cleanup_first /\ pc \in {"open", "raised"}

\* C29 (as stated): after the cleanup of run(cleanup_first=True), before the
\* source is opened and when the run has ended with an error, the previous
\* manifest and the previous frame files are gone and no manifest has been
\* written.
C29_CleanupRemovesOldOutput ==
    CleanedNotReturned =>
        /\ manifest = <<>>
        /\ disk \cap PrevDisk \subseteq WrittenByRun
        /\ pc = "open" => disk = {}

\* C29 (amended): the same for the old output that could be removed; what
\* os.remove failed on is still there.
C29_CleanupRemovesWhatItCan ==
    CleanedNotReturned =>
        /\ manifest = (IF kept.metadata THEN <<PrevManifest>> ELSE <<>>)
        /\ disk \cap PrevDisk \subseteq (WrittenByRun \cup kept.frames)
        /\ kept.frames \subseteq disk
        /\ pc = "open" => disk = kept.frames

\* the old output was removed, a frame was saved, then the run failed with
\* an error: one new frame file and no manifest
C29_Witness ==
    /\ cleanup_first
    /\ kept = NothingKept
    /\ pc = "raised"
    /\ error = "cv2.error"
    /\ Len(extracted_frames) = 1
    /\ disk = WrittenByRun
    /\ manifest = <<>>

\* the last n entries of seq (all of it when it is shorter)
LastN(seq, n) ==
    LET m == IF Len(seq) < n THEN Len(seq) ELSE n
    IN [i \in 1..m |-> seq[Len(seq) - m + i]]
\* the ticks so far showed one slide k times and then only another slide, the
\* cut between them tripping the gate with a full buffer
HardCutAfter(log, k) ==
    /\ k >= buffer_size - 1
    /\ Len(log) > k
    /\ \A i \in 1..k : log[i] = log[1]
    /\ \A i \in (k + 1)..Len(log) : log[i] = log[k + 1]
    /\ log[k + 1] # log[1]
    /\ Comparable(log[1], log[k + 1])
    /\ detect_fast_motion(Rep(log[1], buffer_size - 1) \o <<log[k + 1]>>)
\* ticks the cut pair stays in the buffer
CutTicks == buffer_size - 1
CutPositions == 1..MaxFrames

\* C30: the motion buffer is the last (at most 5) tick frames, whatever resets
\* and scene changes happened.  After a hard cut between two constant slides
\* that trips the gate with a full buffer, each of the first 4 ticks of the new
\* slide flags fast motion and sets since to its time, and every save attempt
\* after the cut comes at least minStableDuration after the 4th of them.
C30_BufferKeepsCutPair ==
    /\ [](/\ Len(frames_buffer) <= buffer_size
          /\ frames_buffer = LastN(tick_log, buffer_size)
          /\ \A k \in CutPositions :
                HardCutAfter(tick_log, k) =>
                    \A i \in 1..Len(save_ticks) :
                        save_ticks[i] > TickTime(k) =>
                            save_ticks[i] >= TickTime(k + CutTicks)
                                             + min_stable_duration)
    /\ [][\A k \in CutPositions :
            (/\ TickStep
             /\ HardCutAfter(tick_log', k)
             /\ Len(tick_log') <= k + CutTicks)
            => /\ event' = "fast_motion"
               /\ stable_frame' = None
               /\ stable_start_time' = current_time'
               /\ current_time' = TickTime(Len(tick_log'))]_vars

\* the new slide of a hard cut is saved exactly minStableDuration after the
\* 4th tick on which the gate fired, with that tick's time as its timestamp
C30_Witness ==
    /\ \E k \in CutPositions :
          /\ HardCutAfter(tick_log, k)
          /\ current_time = TickTime(k + CutTicks) + min_stable_duration
          /\ Last(extracted_frames).timestamp = TickTime(k + CutTicks)
    /\ event = "saved"
    /\ Len(extracted_frames) = 2
    /\ Len(frames_buffer) = buffer_size

====
